---- MODULE Spec2Model ----
(***************************************************************************)
(* Model of src/PermissionMiddleware.ts: the role/scope permission rules,  *)
(* the scope predicates, checkPermission, buildPermissionFilters, the      *)
(* PermissionCache in front of checkPermission, the requirePermission      *)
(* middleware with its audit logging, and ensurePermissionsLoaded.         *)
(*                                                                         *)
(* JavaScript values are modelled as follows.                              *)
(*   - strings are TLA+ strings; `undefined` is the value Undefined, which *)
(*     no program string equals; a value is falsy when it is Undefined or  *)
(*     the empty string;                                                   *)
(*   - the arrays user.regions, user.propertyTypes, user.assignedBuildings *)
(*     are only ever read through includes() and length > 0, or handed on  *)
(*     whole, so each is modelled as the set of its elements;              *)
(*   - an optional object (metadata) is a set holding at most one object;  *)
(*     an object is a function from the names of its fields to values.     *)
(***************************************************************************)
EXTENDS Integers, Sequences, FiniteSets, TLC

VARIABLES
    ctx,        \* the PermissionContext handed to the operation under way
    ret,        \* the operation that ran last and what it returned
    users,      \* the session store: identity id -> SessionUser
    cache,      \* PermissionCache.cache: key -> [result, timestamp]
    now,        \* Date.now()
    stored,     \* history: (id, resource, action, resourceId) -> the decision
                \* and time of the last set for it that no later
                \* invalidateUser of its identity or clear has undone
    reqs,       \* the requests in flight: request -> where its handler stands
    log,        \* the audit sink: the AuditLog records written, in order
    alerts,     \* the escalation transport: the alertSecurityTeam calls, in order
    hist        \* history of the identities: what the decisions were computed from

vars == <<ctx, ret, users, cache, now, stored, reqs, log, alerts, hist>>

\* what the middleware, the audit sink and the identity history hold
mwvars == <<reqs, log, alerts, hist>>

----------------------------------------------------------------------------
(* JavaScript values *)

Undefined == "<undefined>"

Falsy(v) == v \in {Undefined, ""}

----------------------------------------------------------------------------
(* Permission types: enum ResourceType, enum ActionType, UserRole, Region, *)
(* PropertyType                                                            *)

ResourceType == {"building", "suite", "tenant", "market", "analytics", "export", "admin"}

ActionType == {"read", "create", "update", "delete", "export", "share"}

UserRole == {"admin", "researcher", "broker", "viewer"}

Region == {"south_florida", "central_florida", "carolinas", "all_regions"}

PropertyType == {"office", "industrial", "all_types"}

----------------------------------------------------------------------------
(* Permission rules configuration. A rule's optional condition is named:   *)
(* "none" for a rule without one, "regionAndPropertyType" for              *)
(* hasRegionAccess(ctx) && hasPropertyTypeAccess(ctx), "building" for      *)
(* hasBuildingAccess(ctx).                                                 *)

PERMISSION_RULES ==
    << [role |-> "admin", resource |-> "building",
        actions |-> {"read", "create", "update", "delete", "export", "share"},
        condition |-> "none"],
       [role |-> "admin", resource |-> "tenant",
        actions |-> {"read", "create", "update", "delete"},
        condition |-> "none"],
       [role |-> "admin", resource |-> "admin",
        actions |-> {"read", "create", "update", "delete"},
        condition |-> "none"],
       [role |-> "researcher", resource |-> "building",
        actions |-> {"read", "update", "export"},
        condition |-> "regionAndPropertyType"],
       [role |-> "researcher", resource |-> "suite",
        actions |-> {"read", "create", "update"},
        condition |-> "building"],
       [role |-> "researcher", resource |-> "tenant",
        actions |-> {"read", "create", "update"},
        condition |-> "none"],
       [role |-> "broker", resource |-> "building",
        actions |-> {"read", "export"},
        condition |-> "building"],
       [role |-> "broker", resource |-> "suite",
        actions |-> {"read"},
        condition |-> "building"],
       [role |-> "broker", resource |-> "tenant",
        actions |-> {"read"},
        condition |-> "none"],
       [role |-> "viewer", resource |-> "building",
        actions |-> {"read"},
        condition |-> "building"],
       [role |-> "viewer", resource |-> "suite",
        actions |-> {"read"},
        condition |-> "building"] >>

----------------------------------------------------------------------------
(* Permission checking functions *)

\* metadata?.field
MetadataField(c, field) ==
    IF c.metadata = {} THEN Undefined
    ELSE LET m == CHOOSE x \in c.metadata : TRUE
         IN  IF field \in DOMAIN m THEN m[field] ELSE Undefined

\* Variant: a missing metadata.regionId is let through instead of refused.
hasRegionAccess_FailOpen(c) ==
    IF c.user.universalAccess \/ "all_regions" \in c.user.regions THEN TRUE
    ELSE IF Falsy(MetadataField(c, "regionId")) THEN TRUE
    ELSE MetadataField(c, "regionId") \in c.user.regions

\* Variant: the all_regions wildcard is not honoured, only universalAccess.
hasRegionAccess_NoWildcard(c) ==
    IF c.user.universalAccess THEN TRUE
    ELSE IF Falsy(MetadataField(c, "regionId")) THEN FALSE
    ELSE MetadataField(c, "regionId") \in c.user.regions

hasRegionAccess(c) ==
    IF c.user.universalAccess \/ "all_regions" \in c.user.regions THEN TRUE
    ELSE IF Falsy(MetadataField(c, "regionId")) THEN FALSE
    ELSE MetadataField(c, "regionId") \in c.user.regions

\* Variant: a missing metadata.propertyType is let through instead of refused.
hasPropertyTypeAccess_FailOpen(c) ==
    IF c.user.universalAccess \/ "all_types" \in c.user.propertyTypes THEN TRUE
    ELSE IF Falsy(MetadataField(c, "propertyType")) THEN TRUE
    ELSE MetadataField(c, "propertyType") \in c.user.propertyTypes

hasPropertyTypeAccess(c) ==
    IF c.user.universalAccess \/ "all_types" \in c.user.propertyTypes THEN TRUE
    ELSE IF Falsy(MetadataField(c, "propertyType")) THEN FALSE
    ELSE MetadataField(c, "propertyType") \in c.user.propertyTypes

\* Variant: an empty assignedBuildings is an empty allow-list (nothing allowed)
\* instead of no allow-list.
hasBuildingAccess_StrictAllowList(c) ==
    IF c.user.role = "admin" \/ c.user.universalAccess THEN TRUE
    ELSE IF ~hasRegionAccess(c) \/ ~hasPropertyTypeAccess(c) THEN FALSE
    ELSE IF ~Falsy(c.resourceId)
         THEN c.resourceId \in c.user.assignedBuildings
    ELSE TRUE

\* Variant: a building is accessible only as the sole assignment.
hasBuildingAccess_SoleAssignment(c) ==
    IF c.user.role = "admin" \/ c.user.universalAccess THEN TRUE
    ELSE IF ~hasRegionAccess(c) \/ ~hasPropertyTypeAccess(c) THEN FALSE
    ELSE IF ~Falsy(c.resourceId) /\ c.user.assignedBuildings # {}
         THEN c.user.assignedBuildings = {c.resourceId}
    ELSE TRUE

\* Variant: the building assignment is never looked at.
hasBuildingAccess_IgnoreAssignments(c) ==
    IF c.user.role = "admin" \/ c.user.universalAccess THEN TRUE
    ELSE IF ~hasRegionAccess(c) \/ ~hasPropertyTypeAccess(c) THEN FALSE
    ELSE TRUE

hasBuildingAccess(c) ==
    IF c.user.role = "admin" \/ c.user.universalAccess THEN TRUE
    ELSE IF ~hasRegionAccess(c) \/ ~hasPropertyTypeAccess(c) THEN FALSE
    ELSE IF ~Falsy(c.resourceId) /\ c.user.assignedBuildings # {}
         THEN c.resourceId \in c.user.assignedBuildings
    ELSE TRUE

\* rule.condition(context), for a rule that has a condition
RuleCondition(rule, c) ==
    IF rule.condition = "regionAndPropertyType"
    THEN hasRegionAccess(c) /\ hasPropertyTypeAccess(c)
    ELSE hasBuildingAccess(c)

\* Variant: the filter compares the role only.
ApplicableRules_RoleOnly(c) ==
    SelectSeq(PERMISSION_RULES, LAMBDA rule : rule.role = c.user.role)

\* PERMISSION_RULES.filter(rule => rule.role === user.role && rule.resource === resource)
ApplicableRules(c) ==
    SelectSeq(PERMISSION_RULES,
              LAMBDA rule : rule.role = c.user.role /\ rule.resource = c.resource)

\* Variant: a rule whose actions include the action allows, whatever its
\* condition says.
RECURSIVE CheckRulesFrom_IgnoreCondition(_, _, _)
CheckRulesFrom_IgnoreCondition(rules, i, c) ==
    IF i > Len(rules) THEN FALSE
    ELSE IF c.action \notin rules[i].actions
         THEN CheckRulesFrom_IgnoreCondition(rules, i + 1, c)
    ELSE TRUE

\* Variant: a rule allows whatever the action.
CheckRulesFrom_AnyAction(rules, i, c) ==
    \E j \in i..Len(rules) :
        rules[j].condition = "none" \/ RuleCondition(rules[j], c)

\* the for loop of checkPermission over applicableRules, from index i on
RECURSIVE CheckRulesFrom(_, _, _)
CheckRulesFrom(rules, i, c) ==
    IF i > Len(rules) THEN FALSE
    ELSE IF c.action \notin rules[i].actions THEN CheckRulesFrom(rules, i + 1, c)
    ELSE IF rules[i].condition # "none"
         THEN IF RuleCondition(rules[i], c) THEN TRUE
              ELSE CheckRulesFrom(rules, i + 1, c)
    ELSE TRUE

checkPermission(c) == CheckRulesFrom(ApplicableRules(c), 1, c)

\* A filter is a record of three optional constraints; an optional
\* constraint is a set holding at most one { in: [...] } value.
buildPermissionFilters(user, resource) ==
    IF user.role = "admin" \/ user.universalAccess
    THEN [regionId |-> {}, propertyType |-> {}, id |-> {}]
    ELSE [regionId |-> IF "all_regions" \notin user.regions
                       THEN {user.regions} ELSE {},
          propertyType |-> IF "all_types" \notin user.propertyTypes
                           THEN {user.propertyTypes} ELSE {},
          id |-> IF user.assignedBuildings # {} /\ resource = "building"
                 THEN {user.assignedBuildings} ELSE {}]

----------------------------------------------------------------------------
(* Caching layer: class PermissionCache and checkPermissionWithCache.      *)
(* A key is the string getCacheKey builds, spelled as the sequence of its  *)
(* pieces: the ids, the enum values and the ':' separators.                *)

TTL == 5 * 60 * 1000

\* the ids that contain the separator, cut at every ':'
Separated ==
    ("u1:building:read" :> <<"u1", ":", "building", ":", "read">>)
        @@ ("building:read:" :> <<"building", ":", "read", ":">>)

\* the spelling of an id
Chars(str) ==
    IF str = "" THEN << >>
    ELSE IF str \in DOMAIN Separated THEN Separated[str]
    ELSE <<str>>

StartsWith(str, prefix) ==
    /\ Len(str) >= Len(prefix)
    /\ SubSeq(str, 1, Len(prefix)) = prefix

getCacheKey(c) ==
    Chars(c.user.id) \o <<":">> \o <<c.resource>> \o <<":">> \o <<c.action>> \o <<":">>
        \o (IF Falsy(c.resourceId) THEN << >> ELSE Chars(c.resourceId))

MapDelete(m, keys) == [k \in DOMAIN m \ keys |-> m[k]]

\* Variant: an entry is returned whatever its age.
CacheGet_NoExpiry(m, t, c) ==
    LET key == getCacheKey(c)
    IN  IF key \notin DOMAIN m
        THEN [result |-> {}, cache |-> m, branch |-> "absent"]
        ELSE [result |-> {m[key].result}, cache |-> m, branch |-> "hit"]

\* PermissionCache.get at time t on the map m: what it returns (null is
\* the empty set, a boolean b is {b}), the map it leaves and the branch taken
CacheGet(m, t, c) ==
    LET key == getCacheKey(c)
    IN  IF key \notin DOMAIN m
        THEN [result |-> {}, cache |-> m, branch |-> "absent"]
        ELSE IF t - m[key].timestamp > TTL
        THEN [result |-> {}, cache |-> MapDelete(m, {key}), branch |-> "expired"]
        ELSE [result |-> {m[key].result}, cache |-> m, branch |-> "hit"]

\* PermissionCache.set
CacheSet(m, t, c, result) ==
    (getCacheKey(c) :> [result |-> result, timestamp |-> t]) @@ m

\* Variant: only a key that is the prefix itself is deleted.
CacheInvalidateUser_WholeKey(m, userId) ==
    MapDelete(m, { key \in DOMAIN m : key = Chars(userId) \o <<":">> })

\* PermissionCache.invalidateUser
CacheInvalidateUser(m, userId) ==
    MapDelete(m, { key \in DOMAIN m : StartsWith(key, Chars(userId) \o <<":">>) })

\* Variant: a cached decision is used only when it is truthy.
checkPermissionWithCache_Truthy(m, t, c) ==
    LET got == CacheGet(m, t, c)
    IN  IF got.result = {TRUE}
        THEN [result |-> TRUE, cache |-> got.cache, evaluated |-> FALSE]
        ELSE [result |-> checkPermission(c),
              cache |-> CacheSet(got.cache, t, c, checkPermission(c)),
              evaluated |-> TRUE]

\* checkPermissionWithCache at time t on the map m: what it returns, the map
\* it leaves and whether it called checkPermission
checkPermissionWithCache(m, t, c) ==
    LET got == CacheGet(m, t, c)
    IN  IF got.result # {}
        THEN [result |-> CHOOSE b \in got.result : TRUE,
              cache |-> got.cache, evaluated |-> FALSE]
        ELSE [result |-> checkPermission(c),
              cache |-> CacheSet(got.cache, t, c, checkPermission(c)),
              evaluated |-> TRUE]

----------------------------------------------------------------------------
(* The inputs of the permission checking functions *)

\* roles outside UserRole: the empty role and a role the table does not know
OtherRoles == {"", "guest"}

BuildingIds == {"building_123", "building_456"}

Idle == [op |-> "idle"]

\* The scopes, resource ids and metadata evaluated: for each dimension an
\* empty scope, a scope of plain tags and the wildcard, against metadata
\* that is absent, empty, partial, inside the plain scope and outside it;
\* a resource id that is undefined, empty, or a building id that the
\* subsets of BuildingIds hold or lack.
EvalRegionSets == {{}, {"south_florida", "central_florida"}, {"all_regions"}}

EvalPropertyTypeSets == {{}, {"office"}, {"all_types"}}

EvalResourceIds == {Undefined, "", "building_123"}

EmptyObject == [field \in {} |-> Undefined]

EvalMetadata ==
    { {},
      {EmptyObject},
      {[regionId |-> "south_florida"]},
      {[propertyType |-> "office"]},
      {[regionId |-> "south_florida", propertyType |-> "office"]},
      {[regionId |-> "carolinas", propertyType |-> "office"]},
      {[regionId |-> "south_florida", propertyType |-> "industrial"]} }

EvalUsers ==
    [id : {"u1"},
     role : UserRole \cup OtherRoles,
     regions : EvalRegionSets,
     propertyTypes : EvalPropertyTypeSets,
     assignedBuildings : SUBSET BuildingIds,
     universalAccess : BOOLEAN]

EvalContexts ==
    [user : EvalUsers,
     resource : ResourceType,
     action : ActionType,
     resourceId : EvalResourceIds,
     metadata : EvalMetadata]

NoUsers == [id \in {} |-> Idle]

NoCache == [key \in {} |-> Idle]

\* no request in flight, nothing audited, no identity history
NoMiddleware ==
    /\ reqs = << >>
    /\ log = << >>
    /\ alerts = << >>
    /\ hist = << >>

InitEval ==
    /\ ctx \in EvalContexts
    /\ ret = Idle
    /\ users = NoUsers
    /\ cache = NoCache
    /\ now = 0
    /\ stored = NoCache
    /\ NoMiddleware

CallCheckPermission ==
    /\ ret = Idle
    /\ ret' = [op |-> "checkPermission", result |-> checkPermission(ctx)]
    /\ UNCHANGED <<ctx, users, cache, now, stored, mwvars>>

CallHasRegionAccess ==
    /\ ret = Idle
    /\ ret' = [op |-> "hasRegionAccess", result |-> hasRegionAccess(ctx)]
    /\ UNCHANGED <<ctx, users, cache, now, stored, mwvars>>

CallHasPropertyTypeAccess ==
    /\ ret = Idle
    /\ ret' = [op |-> "hasPropertyTypeAccess", result |-> hasPropertyTypeAccess(ctx)]
    /\ UNCHANGED <<ctx, users, cache, now, stored, mwvars>>

CallHasBuildingAccess ==
    /\ ret = Idle
    /\ ret' = [op |-> "hasBuildingAccess", result |-> hasBuildingAccess(ctx)]
    /\ UNCHANGED <<ctx, users, cache, now, stored, mwvars>>

CallBuildPermissionFilters ==
    /\ ret = Idle
    /\ ret' = [op |-> "buildPermissionFilters",
               result |-> buildPermissionFilters(ctx.user, ctx.resource)]
    /\ UNCHANGED <<ctx, users, cache, now, stored, mwvars>>

NextEval ==
    \/ CallCheckPermission
    \/ CallHasRegionAccess
    \/ CallHasPropertyTypeAccess
    \/ CallHasBuildingAccess
    \/ CallBuildPermissionFilters

SpecEval == InitEval /\ [][NextEval]_vars

----------------------------------------------------------------------------
(* The cache in use: identities whose scopes change, a clock, and callers  *)
(* of the PermissionCache methods and of checkPermissionWithCache.         *)

MaxEntries == 2

UserIds == {"u1", "u2"}

\* the identity loadUserPermissions returns for userId
loadUserPermissions(userId) ==
    [id |-> userId,
     role |-> "broker",
     regions |-> {"south_florida", "central_florida"},
     propertyTypes |-> {"office"},
     assignedBuildings |-> {"building_123", "building_456"},
     universalAccess |-> FALSE]

\* the scopes an administrative change gives an identity
ScopeChanges ==
    { [regions |-> {"south_florida", "central_florida"}],
      [regions |-> {"carolinas"}] }

\* the instants at which something happens: the start, TTL later, and a
\* millisecond after that
ClockValues == {0, TTL, TTL + 1}

CacheRequests ==
    [resource : {"building"},
     action : {"read"},
     resourceId : {Undefined, "building_123"},
     metadata : { {[regionId |-> "south_florida", propertyType |-> "office"]} }]

Context(userId, req) ==
    [user |-> users[userId],
     resource |-> req.resource,
     action |-> req.action,
     resourceId |-> req.resourceId,
     metadata |-> req.metadata]

NoContext == [resource |-> Undefined]

\* the key as the tuple getCacheKey is built from
KeyTuple(c) ==
    <<c.user.id, c.resource, c.action, IF Falsy(c.resourceId) THEN "" ELSE c.resourceId>>

Init ==
    /\ users = [id \in UserIds |-> loadUserPermissions(id)]
    /\ cache = NoCache
    /\ now = 0
    /\ ctx = NoContext
    /\ ret = Idle
    /\ stored = NoCache
    /\ NoMiddleware

\* time passes
Tick ==
    /\ \E t \in ClockValues : t > now /\ now' = t
    /\ ctx' = NoContext
    /\ ret' = [op |-> "tick"]
    /\ UNCHANGED <<users, cache, stored, mwvars>>

\* an administrative change of an identity's scopes reaches its session
UpdateUser ==
    /\ \E id \in DOMAIN users, change \in ScopeChanges :
           users' = [users EXCEPT ![id].regions = change.regions]
    /\ ctx' = NoContext
    /\ ret' = [op |-> "updateUser"]
    /\ UNCHANGED <<cache, now, stored, mwvars>>

Get ==
    \E id \in UserIds, req \in CacheRequests :
        LET c == Context(id, req)
            got == CacheGet(cache, now, c)
        IN  /\ ctx' = c
            /\ ret' = [op |-> "get", result |-> got.result, branch |-> got.branch]
            /\ cache' = got.cache
            /\ UNCHANGED <<users, now, stored, mwvars>>

Set ==
    \E id \in UserIds, req \in CacheRequests, result \in BOOLEAN :
        LET c == Context(id, req)
        IN  /\ Cardinality(DOMAIN CacheSet(cache, now, c, result)) <= MaxEntries
            /\ ctx' = c
            /\ ret' = [op |-> "set", result |-> result]
            /\ cache' = CacheSet(cache, now, c, result)
            /\ stored' = (KeyTuple(c) :> [result |-> result, at |-> now]) @@ stored
            /\ UNCHANGED <<users, now, mwvars>>

\* PermissionCache.invalidateUser; removed is the number of entries it deleted
InvalidateUser ==
    \E id \in UserIds :
        /\ cache' = CacheInvalidateUser(cache, id)
        /\ stored' = MapDelete(stored, { k \in DOMAIN stored : k[1] = id })
        /\ ctx' = NoContext
        /\ ret' = [op |-> "invalidateUser", userId |-> id,
                   removed |-> Cardinality(DOMAIN cache)
                                 - Cardinality(DOMAIN CacheInvalidateUser(cache, id))]
        /\ UNCHANGED <<users, now, mwvars>>

\* PermissionCache.clear
Clear ==
    /\ cache' = NoCache
    /\ stored' = NoCache
    /\ ctx' = NoContext
    /\ ret' = [op |-> "clear"]
    /\ UNCHANGED <<users, now, mwvars>>

CallCheckPermissionWithCache ==
    \E id \in UserIds, req \in CacheRequests :
        LET c == Context(id, req)
            done == checkPermissionWithCache(cache, now, c)
        IN  /\ Cardinality(DOMAIN done.cache) <= MaxEntries
            /\ ctx' = c
            /\ ret' = [op |-> "checkPermissionWithCache",
                       result |-> done.result, evaluated |-> done.evaluated]
            /\ cache' = done.cache
            /\ stored' = IF done.evaluated
                         THEN (KeyTuple(c) :> [result |-> done.result, at |-> now]) @@ stored
                         ELSE stored
            /\ UNCHANGED <<users, now, mwvars>>

Next ==
    \/ Tick
    \/ UpdateUser
    \/ Get
    \/ Set
    \/ InvalidateUser
    \/ Clear
    \/ CallCheckPermissionWithCache

Spec == Init /\ [][Next]_vars

\* The cache as the file uses it: permissionCache is private to the module
\* and only checkPermissionWithCache reaches it; nothing in the file calls
\* invalidateUser or clear, and no timer is started. Time passes, and
\* callers keep calling checkPermissionWithCache.
NextInUse ==
    \/ Tick
    \/ UpdateUser
    \/ CallCheckPermissionWithCache

SpecInUse ==
    /\ Init
    /\ [][NextInUse]_vars
    /\ WF_vars(Tick)
    /\ WF_vars(CallCheckPermissionWithCache)

----------------------------------------------------------------------------
(* The cache with ids that are arbitrary strings: SessionUser.id and       *)
(* resourceId are of type string, and getCacheKey interpolates them as     *)
(* they are.                                                               *)

\* an id, and an id that begins with it and the separator
KeyUserIds == {"u1", "u1:building:read"}

KeyRequests ==
    [resource : {"building"},
     action : {"read"},
     resourceId : {Undefined, "", "building:read:"},
     metadata : { {[regionId |-> "south_florida", propertyType |-> "office"]} }]

InitKeys ==
    /\ users = [id \in KeyUserIds |-> loadUserPermissions(id)]
    /\ cache = NoCache
    /\ now = 0
    /\ ctx = NoContext
    /\ ret = Idle
    /\ stored = NoCache
    /\ NoMiddleware

\* PermissionCache.get; key is the string it looked up
KeysGet ==
    \E id \in KeyUserIds, req \in KeyRequests :
        LET c == Context(id, req)
            got == CacheGet(cache, now, c)
        IN  /\ ctx' = c
            /\ ret' = [op |-> "get", hit |-> got.result # {},
                       found |-> got.result, key |-> getCacheKey(c)]
            /\ cache' = got.cache
            /\ UNCHANGED <<users, now, stored, mwvars>>

\* PermissionCache.set
KeysSet ==
    \E id \in KeyUserIds, req \in KeyRequests, result \in BOOLEAN :
        LET c == Context(id, req)
        IN  /\ Cardinality(DOMAIN CacheSet(cache, now, c, result)) <= MaxEntries
            /\ ctx' = c
            /\ ret' = [op |-> "set", key |-> getCacheKey(c)]
            /\ cache' = CacheSet(cache, now, c, result)
            /\ stored' = (KeyTuple(c) :> [result |-> result, at |-> now]) @@ stored
            /\ UNCHANGED <<users, now, mwvars>>

\* PermissionCache.invalidateUser
KeysInvalidateUser ==
    \E id \in KeyUserIds :
        /\ cache' = CacheInvalidateUser(cache, id)
        /\ stored' = MapDelete(stored, { k \in DOMAIN stored : k[1] = id })
        /\ ctx' = NoContext
        /\ ret' = [op |-> "invalidateUser", userId |-> id]
        /\ UNCHANGED <<users, now, mwvars>>

\* checkPermission: it reads its argument and PERMISSION_RULES, and assigns
\* nothing
KeysCheckPermission ==
    \E id \in KeyUserIds, req \in KeyRequests :
        /\ ctx' = Context(id, req)
        /\ ret' = [op |-> "checkPermission", allowed |-> checkPermission(Context(id, req))]
        /\ UNCHANGED <<users, cache, now, stored, mwvars>>

NextKeys ==
    \/ Tick
    \/ KeysGet
    \/ KeysSet
    \/ KeysInvalidateUser
    \/ KeysCheckPermission

SpecKeys == InitKeys /\ [][NextKeys]_vars

----------------------------------------------------------------------------
(* Requests that hold the identity they were given. ensurePermissionsLoaded *)
(* attaches session.permissions to the request; a reload of the session    *)
(* replaces session.permissions by a new object, so a request attached     *)
(* before still holds the identity as it was. The request then asks        *)
(* checkPermissionWithCache for its decision.                              *)

MaxRequests == 2

\* the identity whose requests are followed
SessionUserIds == {"u1"}

\* what a request asks for
SessionRequests ==
    [resource : {"building"},
     action : {"read"},
     resourceId : {"building_123"},
     metadata : { {[regionId |-> "south_florida", propertyType |-> "office"]} }]

\* the context a request holding the identity user builds
RequestContext(user, req) ==
    [user |-> user,
     resource |-> req.resource,
     action |-> req.action,
     resourceId |-> req.resourceId,
     metadata |-> req.metadata]

\* what a decision was computed from
Inputs(c) == [user |-> c.user, metadata |-> c.metadata]

\* the map m without what is not in keys
Restrict(m, keys) == [k \in DOMAIN m \cap keys |-> m[k]]

\* hist.from: cache key -> the identity and metadata the entry under it was
\*   computed from, and whether invalidateUser of the identity ran between
\*   the request's taking the identity and its set
\* hist.ref: a decision call picked to compare later calls with: its
\*   context and its result
InitSession ==
    /\ users = [id \in SessionUserIds |-> loadUserPermissions(id)]
    /\ cache = NoCache
    /\ now = 0
    /\ ctx = NoContext
    /\ ret = Idle
    /\ stored = NoCache
    /\ reqs = << >>
    /\ log = << >>
    /\ alerts = << >>
    /\ hist = [from |-> NoCache, ref |-> {}]

\* the sequence q without its element at position i
RemoveAt(q, i) == SubSeq(q, 1, i - 1) \o SubSeq(q, i + 1, Len(q))

\* ensurePermissionsLoaded for a new request: 401 without session.userId,
\* otherwise req.user = session.permissions and next(); reqs holds the
\* requests between their next() and their decision
Attach ==
    /\ Len(reqs) < MaxRequests
    /\ \E userId \in SessionUserIds \cup {Undefined} :
           IF Falsy(userId)
           THEN /\ reqs' = reqs
                /\ ret' = [op |-> "ensurePermissionsLoaded", response |-> {401}]
           ELSE /\ reqs' = Append(reqs, [user |-> users[userId], stale |-> FALSE])
                /\ ret' = [op |-> "ensurePermissionsLoaded", response |-> {}]
    /\ ctx' = NoContext
    /\ UNCHANGED <<users, cache, now, stored, log, alerts, hist>>

\* a request holding an identity calls checkPermissionWithCache
Decide ==
    \E r \in DOMAIN reqs, req \in SessionRequests, remember \in BOOLEAN :
        LET c == RequestContext(reqs[r].user, req)
            done == checkPermissionWithCache(cache, now, c)
            from == Restrict(hist.from, DOMAIN done.cache)
        IN  /\ ctx' = c
            /\ ret' = [op |-> "checkPermissionWithCache",
                       result |-> done.result, evaluated |-> done.evaluated]
            /\ cache' = done.cache
            /\ stored' = IF done.evaluated
                         THEN (KeyTuple(c) :> [result |-> done.result, at |-> now])
                                  @@ stored
                         ELSE stored
            /\ hist' = [from |-> IF done.evaluated
                                 THEN (getCacheKey(c) :>
                                          [inputs |-> Inputs(c), stale |-> reqs[r].stale])
                                      @@ from
                                 ELSE from,
                        ref |-> IF remember
                                THEN {[c |-> c, result |-> done.result]}
                                ELSE hist.ref]
            /\ reqs' = RemoveAt(reqs, r)
            /\ UNCHANGED <<users, now, log, alerts>>

\* PermissionCache.invalidateUser while requests are in flight; a request
\* is stale when the identity it holds is no longer the one of the session
SessionInvalidateUser ==
    \E id \in SessionUserIds :
        /\ cache' = CacheInvalidateUser(cache, id)
        /\ stored' = MapDelete(stored, { k \in DOMAIN stored : k[1] = id })
        /\ hist' = [hist EXCEPT !.from = Restrict(@, DOMAIN CacheInvalidateUser(cache, id))]
        /\ reqs' = [r \in DOMAIN reqs |->
                       IF reqs[r].user.id = id /\ reqs[r].user # users[id]
                       THEN [reqs[r] EXCEPT !.stale = TRUE]
                       ELSE reqs[r]]
        /\ ctx' = NoContext
        /\ ret' = [op |-> "invalidateUser", userId |-> id,
                   removed |-> Cardinality(DOMAIN cache)
                                 - Cardinality(DOMAIN CacheInvalidateUser(cache, id))]
        /\ UNCHANGED <<users, now, log, alerts>>

NextSession ==
    \/ Tick
    \/ UpdateUser
    \/ Attach
    \/ Decide
    \/ SessionInvalidateUser

SpecSession == InitSession /\ [][NextSession]_vars

\* The caller discipline: whoever replaces session.permissions calls
\* invalidateUser for the identity in the same turn, so that no call of
\* checkPermissionWithCache falls between the change and the invalidation.
UpdateUserThenInvalidate ==
    \E id \in SessionUserIds, change \in ScopeChanges :
        /\ users' = [users EXCEPT ![id].regions = change.regions]
        /\ cache' = CacheInvalidateUser(cache, id)
        /\ stored' = MapDelete(stored, { k \in DOMAIN stored : k[1] = id })
        /\ hist' = [hist EXCEPT !.from = Restrict(@, DOMAIN CacheInvalidateUser(cache, id))]
        /\ reqs' = [r \in DOMAIN reqs |->
                       IF reqs[r].user.id = id /\ reqs[r].user # users'[id]
                       THEN [reqs[r] EXCEPT !.stale = TRUE]
                       ELSE reqs[r]]
        /\ ctx' = NoContext
        /\ ret' = [op |-> "invalidateUser", userId |-> id,
                   removed |-> Cardinality(DOMAIN cache)
                                 - Cardinality(DOMAIN CacheInvalidateUser(cache, id))]
        /\ UNCHANGED <<now, log, alerts>>

NextDisciplined ==
    \/ Tick
    \/ UpdateUserThenInvalidate
    \/ Attach
    \/ Decide

SpecDisciplined == InitSession /\ [][NextDisciplined]_vars

----------------------------------------------------------------------------
(* The middleware requirePermission returns. Its handler is an async       *)
(* function: it runs up to an await, and goes on when the awaited promise  *)
(* settles; handlers of other requests run in between.                     *)
(*   pc "metadata"    at await getResourceMetadata(resource, resourceId)   *)
(*   pc "suspicious"  in logPermissionDenied, at await isSupiciousActivity *)
(*   pc "alert"       in logPermissionDenied, at await alertSecurityTeam   *)
(*   pc "logged"      at await logPermissionDenied(context)                *)
(*   pc "done"        the handler has returned                             *)

\* req.user of the requests: none, the broker of loadUserPermissions, an admin
MiddlewareUsers ==
    { {},
      {loadUserPermissions("u1")},
      {[loadUserPermissions("u2") EXCEPT !.role = "admin"]} }

\* the (resource, action) pairs requirePermission is mounted with
Routes ==
    { [resource |-> "building", action |-> "read"],
      [resource |-> "building", action |-> "delete"],
      [resource |-> "admin", action |-> "read"],
      [resource |-> "admin", action |-> "export"] }

\* req.params.id, req.params.buildingId and req.body?.buildingId
RequestParams ==
    [id : {Undefined, "building_123"},
     buildingId : {Undefined, "building_123"},
     bodyBuildingId : {Undefined, "building_123"}]

\* req.params.id || req.params.buildingId || req.body?.buildingId
ResourceIdOf(params) ==
    IF ~Falsy(params.id) THEN params.id
    ELSE IF ~Falsy(params.buildingId) THEN params.buildingId
    ELSE params.bodyBuildingId

\* Variant: metadata is found for a resource id of any kind.
getResourceMetadata_AnyKind(resource, resourceId) ==
    IF ~Falsy(resourceId)
    THEN {[regionId |-> "south_florida", propertyType |-> "office"]}
    ELSE {EmptyObject}

\* what getResourceMetadata resolves to
getResourceMetadata(resource, resourceId) ==
    IF resource = "building" /\ ~Falsy(resourceId)
    THEN {[regionId |-> "south_florida", propertyType |-> "office"]}
    ELSE {EmptyObject}

\* Variant: an attempt is suspicious once only.
isSupiciousActivity_OncePerAttempt(c) ==
    /\ c.resource = "admin" /\ c.user.role # "admin"
    /\ \A i \in DOMAIN alerts : alerts[i].context # c

isSupiciousActivity(c) ==
    c.resource = "admin" /\ c.user.role # "admin"

\* the context the handler of request r builds
ContextOf(r) ==
    [user |-> CHOOSE user \in reqs[r].user : TRUE,
     resource |-> reqs[r].resource,
     action |-> reqs[r].action,
     resourceId |-> reqs[r].resourceId,
     metadata |-> reqs[r].metadata]

\* Variant: the record names no attempt.
AuditLog_Unattributed(r, c) ==
    [req |-> 0,
     userId |-> c.user.id,
     action |-> c.action,
     resource |-> c.resource,
     resourceId |-> c.resourceId,
     granted |-> FALSE,
     metadata |-> c.metadata]

\* the AuditLog record of logPermissionDenied, and the request it is for
AuditLog(r, c) ==
    [req |-> r,
     userId |-> c.user.id,
     action |-> c.action,
     resource |-> c.resource,
     resourceId |-> c.resourceId,
     granted |-> FALSE,
     metadata |-> c.metadata]

InitMiddleware ==
    /\ users = NoUsers
    /\ cache = NoCache
    /\ now = 0
    /\ ctx = NoContext
    /\ ret = Idle
    /\ stored = NoCache
    /\ reqs = << >>
    /\ log = << >>
    /\ alerts = << >>
    /\ hist = << >>

\* Variant: a request without user is passed on.
RequirePermission_PassesUnauthenticated ==
    /\ Len(reqs) < MaxRequests
    /\ \E user \in MiddlewareUsers, route \in Routes, params \in RequestParams :
           reqs' = Append(reqs,
                      [pc |-> IF user = {} THEN "done" ELSE "metadata",
                       user |-> user,
                       resource |-> route.resource,
                       action |-> route.action,
                       resourceId |-> IF user = {} THEN Undefined ELSE ResourceIdOf(params),
                       metadata |-> {},
                       decision |-> {},
                       response |-> {},
                       next |-> user = {},
                       failed |-> ""])
    /\ UNCHANGED <<ctx, ret, users, cache, now, stored, log, alerts, hist>>

\* the handler is called: 401 without req.user, otherwise it extracts the
\* resource id and calls getResourceMetadata
RequirePermission ==
    /\ Len(reqs) < MaxRequests
    /\ \E user \in MiddlewareUsers, route \in Routes, params \in RequestParams :
           reqs' = Append(reqs,
                      [pc |-> IF user = {} THEN "done" ELSE "metadata",
                       user |-> user,
                       resource |-> route.resource,
                       action |-> route.action,
                       resourceId |-> IF user = {} THEN Undefined ELSE ResourceIdOf(params),
                       metadata |-> {},
                       decision |-> {},
                       response |-> IF user = {} THEN {401} ELSE {},
                       next |-> FALSE,
                       failed |-> ""])
    /\ UNCHANGED <<ctx, ret, users, cache, now, stored, log, alerts, hist>>

\* getResourceMetadata has resolved: the handler builds the context and
\* calls checkPermission; allowed, it calls next(); denied, it calls
\* logPermissionDenied, which writes its record and calls isSupiciousActivity
MetadataFetched ==
    \E r \in DOMAIN reqs :
        /\ reqs[r].pc = "metadata"
        /\ LET fetched == [reqs EXCEPT ![r].metadata =
                              getResourceMetadata(reqs[r].resource, reqs[r].resourceId)]
               c == [user |-> CHOOSE user \in reqs[r].user : TRUE,
                     resource |-> reqs[r].resource,
                     action |-> reqs[r].action,
                     resourceId |-> reqs[r].resourceId,
                     metadata |-> fetched[r].metadata]
           IN  IF checkPermission(c)
               THEN /\ reqs' = [fetched EXCEPT ![r].decision = {TRUE},
                                               ![r].next = TRUE,
                                               ![r].pc = "done"]
                    /\ log' = log
               ELSE /\ reqs' = [fetched EXCEPT ![r].decision = {FALSE},
                                               ![r].pc = "suspicious"]
                    /\ log' = Append(log, AuditLog(r, c))
        /\ UNCHANGED <<ctx, ret, users, cache, now, stored, alerts, hist>>

\* isSupiciousActivity has resolved: logPermissionDenied calls
\* alertSecurityTeam when it is true, and returns when it is false
SuspicionChecked ==
    \E r \in DOMAIN reqs :
        /\ reqs[r].pc = "suspicious"
        /\ IF isSupiciousActivity(ContextOf(r))
           THEN /\ alerts' = Append(alerts, [req |-> r, context |-> ContextOf(r)])
                /\ reqs' = [reqs EXCEPT ![r].pc = "alert"]
           ELSE /\ alerts' = alerts
                /\ reqs' = [reqs EXCEPT ![r].pc = "logged"]
        /\ UNCHANGED <<ctx, ret, users, cache, now, stored, log, hist>>

\* alertSecurityTeam has resolved: logPermissionDenied returns
SecurityTeamAlerted ==
    \E r \in DOMAIN reqs :
        /\ reqs[r].pc = "alert"
        /\ reqs' = [reqs EXCEPT ![r].pc = "logged"]
        /\ UNCHANGED <<ctx, ret, users, cache, now, stored, log, alerts, hist>>

\* logPermissionDenied has resolved: the handler answers 403
PermissionDeniedLogged ==
    \E r \in DOMAIN reqs :
        /\ reqs[r].pc = "logged"
        /\ reqs' = [reqs EXCEPT ![r].response = {403}, ![r].pc = "done"]
        /\ UNCHANGED <<ctx, ret, users, cache, now, stored, log, alerts, hist>>

NextMiddleware ==
    \/ RequirePermission
    \/ MetadataFetched
    \/ SuspicionChecked
    \/ SecurityTeamAlerted
    \/ PermissionDeniedLogged

SpecMiddleware == InitMiddleware /\ [][NextMiddleware]_vars

----------------------------------------------------------------------------
(* The middleware mounted on routes whose rules carry a condition, handling *)
(* requests of identities of every scope.                                  *)

MaxScopedRequests == 1

\* req.user: researchers and viewers with plain or wildcard regions and
\* property types, with and without assignment and universalAccess
ScopedUsers ==
    { {user} : user \in
        [id : {"u1"},
         role : {"researcher", "viewer"},
         regions : {{"south_florida", "central_florida"}, {"all_regions"}},
         propertyTypes : {{"office"}, {"all_types"}},
         assignedBuildings : {{}, {"building_123"}},
         universalAccess : BOOLEAN] }

ScopedRoutes ==
    { [resource |-> "suite", action |-> "read"],
      [resource |-> "building", action |-> "read"],
      [resource |-> "tenant", action |-> "read"],
      [resource |-> "admin", action |-> "read"] }

\* the handler requirePermission(resource, action) returns, called with a
\* request that has a user
RequirePermissionScoped ==
    /\ Len(reqs) < MaxScopedRequests
    /\ \E user \in ScopedUsers, route \in ScopedRoutes, params \in RequestParams :
           reqs' = Append(reqs,
                      [pc |-> "metadata",
                       user |-> user,
                       resource |-> route.resource,
                       action |-> route.action,
                       resourceId |-> ResourceIdOf(params),
                       metadata |-> {},
                       decision |-> {},
                       response |-> {},
                       next |-> FALSE,
                       failed |-> ""])
    /\ UNCHANGED <<ctx, ret, users, cache, now, stored, log, alerts, hist>>

NextMiddlewareScoped ==
    \/ RequirePermissionScoped
    \/ MetadataFetched
    \/ SuspicionChecked
    \/ SecurityTeamAlerted
    \/ PermissionDeniedLogged

SpecMiddlewareScoped == InitMiddleware /\ [][NextMiddlewareScoped]_vars

----------------------------------------------------------------------------
(* The middleware with collaborators that can fail: getResourceMetadata    *)
(* querying a database, logPermissionDenied writing to a logging service.  *)
(* Every await of the handler stands inside its try block, so a promise    *)
(* that rejects takes the handler to its catch block.                      *)

\* the promise of getResourceMetadata rejects: catch, 500
MetadataFetchFails ==
    \E r \in DOMAIN reqs :
        /\ reqs[r].pc = "metadata"
        /\ reqs' = [reqs EXCEPT ![r].failed = "metadata",
                                ![r].response = {500},
                                ![r].pc = "done"]
        /\ UNCHANGED <<ctx, ret, users, cache, now, stored, log, alerts, hist>>

\* isSupiciousActivity, alertSecurityTeam or logPermissionDenied rejects:
\* the promise of logPermissionDenied rejects, catch, 500
AuditFails ==
    \E r \in DOMAIN reqs :
        /\ reqs[r].pc \in {"suspicious", "alert", "logged"}
        /\ reqs' = [reqs EXCEPT ![r].failed = "audit",
                                ![r].response = {500},
                                ![r].pc = "done"]
        /\ UNCHANGED <<ctx, ret, users, cache, now, stored, log, alerts, hist>>

NextMiddlewareFaults ==
    \/ NextMiddleware
    \/ MetadataFetchFails
    \/ AuditFails

SpecMiddlewareFaults == InitMiddleware /\ [][NextMiddlewareFaults]_vars

----------------------------------------------------------------------------
(* Properties of the permission checking functions, under SpecEval *)

Checked == ret.op = "checkPermission"

\* the rules of the table for the role and the resource kind of c
RulesFor(c) ==
    { i \in 1..Len(PERMISSION_RULES) :
        /\ PERMISSION_RULES[i].role = c.user.role
        /\ PERMISSION_RULES[i].resource = c.resource }

HasField(c, field) ==
    /\ c.metadata # {}
    /\ \A m \in c.metadata : field \in DOMAIN m

\* the resource id is absent: undefined or the empty string
NoResourceId(c) == c.resourceId = Undefined \/ c.resourceId = ""

RegionInScope(c) ==
    \/ "all_regions" \in c.user.regions
    \/ /\ HasField(c, "regionId")
       /\ \E m \in c.metadata : m.regionId \in c.user.regions

PropertyTypeInScope(c) ==
    \/ "all_types" \in c.user.propertyTypes
    \/ /\ HasField(c, "propertyType")
       /\ \E m \in c.metadata : m.propertyType \in c.user.propertyTypes

\* C1: for an identity with role admin, checkPermission returns true for
\* every resource kind, action, resourceId and metadata.
C1_AdminAllowedEverything ==
    (Checked /\ ctx.user.role = "admin") => ret.result = TRUE

\* C2: checkPermission returns true if and only if the table holds a rule
\* for the role and the resource kind whose actions include the action and
\* whose condition is absent or true on the context; nothing denies.
C2_AllowIffSomeRuleAllows ==
    Checked =>
        (ret.result = TRUE <=>
            \E i \in RulesFor(ctx) :
                /\ ctx.action \in PERMISSION_RULES[i].actions
                /\ \/ PERMISSION_RULES[i].condition = "none"
                   \/ RuleCondition(PERMISSION_RULES[i], ctx))

\* a conditional rule allowed the request
C2_Witness ==
    /\ Checked /\ ret.result = TRUE
    /\ ctx.user.role = "viewer" /\ ctx.resource = "suite"
    /\ ~ctx.user.universalAccess

\* C3: default deny: with no rule for the (role, resource kind) pair,
\* checkPermission returns false whatever the action, the resourceId, the
\* metadata and the scopes, universalAccess and wildcards included.
C3_DefaultDeny ==
    (Checked /\ RulesFor(ctx) = {}) => ret.result = FALSE

\* a universalAccess identity holding both wildcards, on a kind without rule
C3_Witness ==
    /\ Checked /\ ret.result = FALSE
    /\ ctx.user.role = "broker" /\ ctx.resource = "market" /\ ctx.action = "read"
    /\ ctx.user.universalAccess
    /\ "all_regions" \in ctx.user.regions /\ "all_types" \in ctx.user.propertyTypes

\* C4: hasRegionAccess is true iff universalAccess, or regions holds
\* all_regions, or metadata.regionId is present and in regions;
\* hasPropertyTypeAccess is the same over propertyTypes, all_types and
\* metadata.propertyType.
C4_RegionAndPropertyTypeAccess ==
    /\ ret.op = "hasRegionAccess" =>
           (ret.result = TRUE <=> (ctx.user.universalAccess \/ RegionInScope(ctx)))
    /\ ret.op = "hasPropertyTypeAccess" =>
           (ret.result = TRUE <=> (ctx.user.universalAccess \/ PropertyTypeInScope(ctx)))

\* universalAccess, no wildcard, no metadata: region access granted
C4_Witness ==
    /\ ret.op = "hasRegionAccess" /\ ret.result = TRUE
    /\ ctx.user.universalAccess /\ ctx.user.regions = {}
    /\ ctx.metadata = {}

\* C5: hasBuildingAccess is true for admin and for universalAccess;
\* otherwise it is true iff hasRegionAccess and hasPropertyTypeAccess are
\* true and, when a resourceId is supplied and assignedBuildings is
\* non-empty, the resourceId is in assignedBuildings.
C5_BuildingAccess ==
    ret.op = "hasBuildingAccess" =>
        (ret.result = TRUE <=>
            \/ ctx.user.role = "admin"
            \/ ctx.user.universalAccess
            \/ /\ hasRegionAccess(ctx)
               /\ hasPropertyTypeAccess(ctx)
               /\ (~NoResourceId(ctx) /\ ctx.user.assignedBuildings # {})
                      => ctx.resourceId \in ctx.user.assignedBuildings)

\* empty assignedBuildings, a resourceId supplied: the allow-list is skipped
C5_Witness ==
    /\ ret.op = "hasBuildingAccess" /\ ret.result = TRUE
    /\ ctx.user.role = "broker" /\ ~ctx.user.universalAccess
    /\ ctx.user.assignedBuildings = {}
    /\ ctx.resourceId = "building_123"

\* C6: for a broker without universalAccess, checkPermission on building is
\* true iff the action is read or export, the region and the property type
\* of the metadata are in scope (or the wildcard is held), and the
\* resourceId is absent, or assignedBuildings is empty, or holds it.
C6_BrokerOnBuilding ==
    (/\ Checked
     /\ ctx.user.role = "broker" /\ ~ctx.user.universalAccess
     /\ ctx.resource = "building")
    => (ret.result = TRUE <=>
            /\ ctx.action \in {"read", "export"}
            /\ RegionInScope(ctx)
            /\ PropertyTypeInScope(ctx)
            /\ \/ NoResourceId(ctx)
               \/ ctx.user.assignedBuildings = {}
               \/ ctx.resourceId \in ctx.user.assignedBuildings)

\* the broker of loadUserPermissions reads an assigned building of its region
C6_Witness ==
    /\ Checked /\ ret.result = TRUE
    /\ ctx.user.role = "broker" /\ ~ctx.user.universalAccess
    /\ ctx.user.regions = {"south_florida", "central_florida"}
    /\ ctx.user.propertyTypes = {"office"}
    /\ ctx.user.assignedBuildings = {"building_123", "building_456"}
    /\ ctx.resource = "building" /\ ctx.action = "read"
    /\ ctx.resourceId = "building_123"
    /\ ctx.metadata = {[regionId |-> "south_florida", propertyType |-> "office"]}

MissingMetadata(c) ==
    ~HasField(c, "regionId") \/ ~HasField(c, "propertyType")

\* C7 as stated: for a non-admin identity without universalAccess,
\* checkPermission with absent metadata, or metadata lacking regionId or
\* propertyType, returns false for every resource kind, action and
\* resourceId.
C7_MissingMetadataAlwaysDenies ==
    (/\ Checked
     /\ ctx.user.role # "admin" /\ ~ctx.user.universalAccess
     /\ MissingMetadata(ctx))
    => ret.result = FALSE

\* C7 as amended: for a non-admin identity without universalAccess that
\* lacks the wildcard of a dimension the metadata leaves out (all_regions
\* for regionId, all_types for propertyType), checkPermission returns false
\* for every resource kind but tenant, every action and every resourceId.
C7_MissingMetadataDeniesScoped ==
    (/\ Checked
     /\ ctx.user.role # "admin" /\ ~ctx.user.universalAccess
     /\ \/ ~HasField(ctx, "regionId") /\ "all_regions" \notin ctx.user.regions
        \/ ~HasField(ctx, "propertyType") /\ "all_types" \notin ctx.user.propertyTypes
     /\ ctx.resource # "tenant")
    => ret.result = FALSE

\* a viewer in its region and type, refused for want of metadata.propertyType
C7_Witness ==
    /\ Checked /\ ret.result = FALSE
    /\ ctx.user.role = "viewer" /\ ~ctx.user.universalAccess
    /\ ctx.user.regions = {"south_florida", "central_florida"}
    /\ ctx.user.propertyTypes = {"office"}
    /\ ctx.user.assignedBuildings = {}
    /\ ctx.resource = "building" /\ ctx.action = "read"
    /\ ctx.metadata = {[regionId |-> "south_florida"]}

\* the identities with the role and assignedBuildings of user, universalAccess
\* false, and both wildcard tags
WildcardTwins(user) ==
    { [user EXCEPT !.universalAccess = FALSE, !.regions = rs, !.propertyTypes = ps] :
        rs \in { x \cup {"all_regions"} : x \in EvalRegionSets },
        ps \in { x \cup {"all_types"} : x \in EvalPropertyTypeSets } }

\* what the operation that ran on ctx returns on the context c
SameCall(c) ==
    CASE ret.op = "checkPermission" -> checkPermission(c)
      [] ret.op = "hasRegionAccess" -> hasRegionAccess(c)
      [] ret.op = "hasPropertyTypeAccess" -> hasPropertyTypeAccess(c)
      [] ret.op = "hasBuildingAccess" -> hasBuildingAccess(c)
      [] ret.op = "buildPermissionFilters" -> buildPermissionFilters(c.user, c.resource)

C18_FilterConstraints ==
    ret.op = "buildPermissionFilters" =>
        IF ctx.user.role = "admin" \/ ctx.user.universalAccess
        THEN ret.result = [regionId |-> {}, propertyType |-> {}, id |-> {}]
        ELSE /\ ret.result.regionId =
                    IF "all_regions" \notin ctx.user.regions
                    THEN {ctx.user.regions} ELSE {}
             /\ ret.result.propertyType =
                    IF "all_types" \notin ctx.user.propertyTypes
                    THEN {ctx.user.propertyTypes} ELSE {}
             /\ ret.result.id =
                    IF ctx.user.assignedBuildings # {}
                    THEN {ctx.user.assignedBuildings} ELSE {}

\* the resource with the id and the metadata of c satisfies every
\* constraint of the filter
Satisfies(filter, c) ==
    /\ \A in \in filter.regionId : MetadataField(c, "regionId") \in in
    /\ \A in \in filter.propertyType : MetadataField(c, "propertyType") \in in
    /\ \A in \in filter.id : c.resourceId \in in

\* C19: the bulk filter agrees with per-item evaluation: for every
\* identity, every resource kind and every resource with an id and metadata
\* (regionId, propertyType), the resource satisfies every constraint of
\* buildPermissionFilters(identity, kind) iff hasBuildingAccess is true.
C19_FilterAgreesWithHasBuildingAccess ==
    (/\ ret.op = "hasBuildingAccess"
     /\ ~NoResourceId(ctx)
     /\ HasField(ctx, "regionId") /\ HasField(ctx, "propertyType"))
    => (ret.result = TRUE <=>
            Satisfies(buildPermissionFilters(ctx.user, ctx.resource), ctx))

\* C22: a viewer is read-only: for role viewer, whatever the regions,
\* propertyTypes, assignedBuildings and universalAccess, checkPermission
\* returns true only for action read on resource kinds building and suite.
C22_ViewerIsReadOnly ==
    (Checked /\ ctx.user.role = "viewer" /\ ret.result = TRUE)
    => /\ ctx.action = "read"
       /\ ctx.resource \in {"building", "suite"}

\* a viewer with universalAccess and both wildcards is refused an update
C22_Witness ==
    /\ Checked /\ ret.result = FALSE
    /\ ctx.user.role = "viewer" /\ ctx.user.universalAccess
    /\ "all_regions" \in ctx.user.regions /\ "all_types" \in ctx.user.propertyTypes
    /\ ctx.resource = "building" /\ ctx.action = "update"

\* the role next above a role in Viewer <= Broker <= Researcher <= Admin
RoleAbove ==
    ("viewer" :> "broker") @@ ("broker" :> "researcher") @@ ("researcher" :> "admin")

\* C27: the roles form a hierarchy Viewer <= Broker <= Researcher <= Admin:
\* with the same scopes, resource kind, action, resourceId and metadata,
\* what checkPermission allows to a role it allows to the role next above.
C27_RoleHierarchy ==
    (Checked /\ ret.result = TRUE /\ ctx.user.role \in DOMAIN RoleAbove)
    => checkPermission([ctx EXCEPT !.user.role = RoleAbove[ctx.user.role]])

\* checkPermission allows the request of ctx after a region is added
AllowedWithRegion(region) ==
    checkPermission([ctx EXCEPT !.user.regions = @ \cup {region}])

\* checkPermission allows the request of ctx after a property type is added
AllowedWithPropertyType(type) ==
    checkPermission([ctx EXCEPT !.user.propertyTypes = @ \cup {type}])

\* checkPermission allows the request of ctx after a building id is added
AllowedWithBuilding(id) ==
    checkPermission([ctx EXCEPT !.user.assignedBuildings = @ \cup {id}])

\* C28 as stated: granting more scope never revokes access: a request
\* checkPermission allows is still allowed after a region, a property type
\* or a building id is added, also when assignedBuildings was empty.
C28_MoreScopeNeverRevokes ==
    (Checked /\ ret.result = TRUE)
    => /\ \A region \in Region : AllowedWithRegion(region)
       /\ \A type \in PropertyType : AllowedWithPropertyType(type)
       /\ \A id \in BuildingIds : AllowedWithBuilding(id)

\* C28: a request checkPermission allows is still allowed after a region or
\* a property type is added, and after a building id is added to an
\* assignedBuildings that is not empty or for a request without resourceId;
\* a first building id added to an empty assignedBuildings revokes exactly
\* the requests on other resource ids that were allowed to an identity that
\* is not admin and has no universalAccess through a rule whose condition
\* is hasBuildingAccess.
C28_MoreScopeNeverRevokesAssigned ==
    (Checked /\ ret.result = TRUE)
    => /\ \A region \in Region : AllowedWithRegion(region)
       /\ \A type \in PropertyType : AllowedWithPropertyType(type)
       /\ \A id \in BuildingIds :
              ~AllowedWithBuilding(id)
              <=> /\ ctx.user.assignedBuildings = {}
                  /\ ~Falsy(ctx.resourceId) /\ ctx.resourceId # id
                  /\ ctx.user.role # "admin" /\ ~ctx.user.universalAccess
                  /\ \A i \in 1..Len(ApplicableRules(ctx)) :
                         ctx.action \in ApplicableRules(ctx)[i].actions
                         => ApplicableRules(ctx)[i].condition = "building"

\* a viewer assigned building_123 reads it, and still does when assigned
\* building_456 as well
C28_Witness ==
    /\ Checked /\ ret.result = TRUE
    /\ ctx.user.role = "viewer" /\ ~ctx.user.universalAccess
    /\ ctx.user.assignedBuildings = {"building_123"}
    /\ ctx.resourceId = "building_123"
    /\ AllowedWithBuilding("building_456")

----------------------------------------------------------------------------
(* Properties of the cache, under Spec *)

\* the step is a PermissionCache.get, or a checkPermissionWithCache, whose
\* get is its first statement
ReadsCache == ret'.op \in {"get", "checkPermissionWithCache"}

\* the step returned a cached decision
ServedFromCache ==
    \/ ret'.op = "get" /\ ret'.result # {}
    \/ ret'.op = "checkPermissionWithCache" /\ ~ret'.evaluated

\* C9: get never returns a decision older than TTL: when it returns a
\* decision, the set that stored it is at most TTL back; on an entry older
\* than TTL it returns null and removes the entry; a hit leaves the entry
\* and its timestamp as they were.
C9_NeverOlderThanTTL ==
    [][ /\ ServedFromCache =>
              /\ KeyTuple(ctx') \in DOMAIN stored
              /\ now - stored[KeyTuple(ctx')].at <= TTL
              /\ cache' = cache
        /\ (/\ ret'.op = "get"
            /\ getCacheKey(ctx') \in DOMAIN cache
            /\ now - cache[getCacheKey(ctx')].timestamp > TTL)
           => /\ ret'.result = {}
              /\ getCacheKey(ctx') \notin DOMAIN cache' ]_vars

\* a get found an entry whose set is more than TTL back, and removed it
C9_Witness ==
    /\ ret.op = "get" /\ ret.branch = "expired" /\ ret.result = {}
    /\ KeyTuple(ctx) \in DOMAIN stored
    /\ now - stored[KeyTuple(ctx)].at > TTL
    /\ getCacheKey(ctx) \notin DOMAIN cache

\* C10: after set(K, D), a get(K) within TTL of it, with no set,
\* invalidateUser of K's identity or clear in between, returns D, and
\* checkPermissionWithCache returns D without calling checkPermission and
\* without writing the cache, for D false as for D true, whatever the
\* identity's scopes are by then.
C10_CacheCoherence ==
    [][ (/\ ReadsCache
         /\ KeyTuple(ctx') \in DOMAIN stored
         /\ now - stored[KeyTuple(ctx')].at <= TTL)
        => /\ cache' = cache
           /\ ret'.op = "get" => ret'.result = {stored[KeyTuple(ctx')].result}
           /\ ret'.op = "checkPermissionWithCache" =>
                  /\ ret'.result = stored[KeyTuple(ctx')].result
                  /\ ~ret'.evaluated ]_vars

\* a cached false is served to an identity whose scopes now allow the request
C10_Witness ==
    /\ ret.op = "checkPermissionWithCache"
    /\ ~ret.evaluated /\ ret.result = FALSE
    /\ checkPermission(ctx) = TRUE

\* the keys the requests of the identity id are cached under
KeysOf(id) == { getCacheKey(Context(id, req)) : req \in CacheRequests }

\* C11: after invalidateUser(id) the cache holds no entry of the identity
\* id, whatever the resource kind, the action and the resourceId; a
\* checkPermissionWithCache for a key that no set has stored since is a
\* miss: it calls checkPermission on the identity and the metadata as they
\* are now, returns that decision and stores it.
C11_InvalidateUserThenMiss ==
    [][ /\ ret'.op = "invalidateUser" =>
              KeysOf(ret'.userId) \cap DOMAIN cache' = {}
        /\ (/\ ret'.op = "checkPermissionWithCache"
            /\ KeyTuple(ctx') \notin DOMAIN stored)
           => /\ ret'.evaluated
              /\ ctx'.user = users[ctx'.user.id]
              /\ ret'.result = checkPermission(ctx')
              /\ getCacheKey(ctx') \in DOMAIN cache'
              /\ cache'[getCacheKey(ctx')] =
                     [result |-> checkPermission(ctx'), timestamp |-> now] ]_vars

\* invalidateUser deleted an identity's entry and left another identity's
C11_Witness ==
    /\ ret.op = "invalidateUser" /\ ret.removed >= 1
    /\ KeysOf(ret.userId) \cap DOMAIN cache = {}
    /\ cache # NoCache

----------------------------------------------------------------------------
(* Properties of requests holding their identity, under SpecSession *)

\* C12: a set that races an invalidation leaves no stale entry: the cache
\* never holds a decision that a request computed from an identity it took
\* before the identity changed and stored after the invalidateUser that
\* followed the change.
C12_NoStaleEntryAfterInvalidation ==
    \A key \in DOMAIN hist.from : ~hist.from[key].stale

\* the call just made repeats the call hist.ref remembers
RepeatsCall ==
    /\ ret'.op = "checkPermissionWithCache"
    /\ \E x \in hist.ref : x.c = ctx'

\* C13: repeated evaluation is deterministic: two calls of
\* checkPermissionWithCache with the same identity, resource kind, action,
\* resourceId and metadata return the same boolean, whatever evaluations,
\* cache writes and expiries happened between them.
C13_RepeatedCallsAgree ==
    [][ RepeatsCall => \A x \in hist.ref : ret'.result = x.result ]_vars

----------------------------------------------------------------------------
(* Properties of the cache under the caller discipline, under              *)
(* SpecDisciplined                                                         *)

\* C24: the cache is transparent under the discipline: with invalidateUser
\* called at every change of an identity and the metadata of a resource
\* fixed, a checkPermissionWithCache made with the current identity returns
\* what checkPermission returns on the same context.
C24_CacheIsTransparent ==
    (ret.op = "checkPermissionWithCache" /\ ctx.user = users[ctx.user.id])
    => ret.result = checkPermission(ctx)

----------------------------------------------------------------------------
(* Properties of the cache keys, under SpecKeys *)

\* the key of the key tuple t
KeyOf(t) ==
    getCacheKey([user |-> [id |-> t[1]], resource |-> t[2], action |-> t[3],
                 resourceId |-> t[4]])

\* C25: cache keys are injective over the key tuple: contexts that differ
\* in identity id, resource kind, action or resourceId (absent and empty
\* counting as one) have different keys, also for ids that contain ':';
\* hence a get returns a decision only if a set stored it for the same
\* tuple, and returns that decision.
C25_KeysAreInjective ==
    /\ \A t1, t2 \in DOMAIN stored : t1 # t2 => KeyOf(t1) # KeyOf(t2)
    /\ (ret.op = "get" /\ ret.hit)
       => /\ KeyTuple(ctx) \in DOMAIN stored
          /\ ret.found = {stored[KeyTuple(ctx)].result}

\* the entry under key is after the step what it was before it
EntryKept(key) ==
    IF key \in DOMAIN cache
    THEN key \in DOMAIN cache' /\ cache'[key] = cache[key]
    ELSE key \notin DOMAIN cache'

\* C26: invalidateUser(a) removes only the entries of identity a: an entry
\* that a set stored for an identity b other than a is still there, with
\* its decision and its timestamp; get and set change at most the entry of
\* their own key; checkPermission changes neither the cache nor the
\* identities.
C26_OnlyOwnEntriesChange ==
    [][ /\ ret'.op = "invalidateUser" =>
              \A t \in DOMAIN stored :
                  (t[1] # ret'.userId /\ KeyOf(t) \in DOMAIN cache) => EntryKept(KeyOf(t))
        /\ ret'.op \in {"get", "set"} =>
              \A key \in (DOMAIN cache \cup DOMAIN cache') \ {ret'.key} : EntryKept(key)
        /\ ret'.op = "checkPermission" => cache' = cache /\ users' = users ]_vars

----------------------------------------------------------------------------
(* Properties of requirePermission, under SpecMiddleware *)

\* the requests whose handler has returned
Done == { r \in DOMAIN reqs : reqs[r].pc = "done" }

\* the alertSecurityTeam calls made for request r
EscalationsOf(r) == { i \in DOMAIN alerts : alerts[i].req = r }

\* request r was denied to a non-admin identity on resource kind admin
DeniedOnAdminKind(r) ==
    /\ reqs[r].decision = {FALSE}
    /\ reqs[r].resource = "admin"
    /\ \E user \in reqs[r].user : user.role # "admin"

Audited(c) ==
    \E i \in DOMAIN log :
        /\ log[i].userId = c.user.id
        /\ log[i].resource = c.resource
        /\ log[i].action = c.action
        /\ log[i].resourceId = c.resourceId

\* C15: every decision that comes out false is audited: when
\* requirePermission answers 403, and when checkPermissionWithCache returns
\* false, computed or served from the cache, logPermissionDenied has been
\* called for the attempt.
C15_EveryDenialIsAudited ==
    /\ \A r \in DOMAIN reqs :
           reqs[r].response = {403} => \E i \in DOMAIN log : log[i].req = r
    /\ (ret.op = "checkPermissionWithCache" /\ ret.result = FALSE) => Audited(ctx)

\* C17: the denial does not wait for the audit: while logPermissionDenied
\* or the escalation call of a denied request has not completed, the 403
\* of the request has been sent.
C17_DenialDoesNotWaitForAudit ==
    \A r \in DOMAIN reqs :
        reqs[r].pc \in {"suspicious", "alert", "logged"} => reqs[r].response = {403}

\* logPermissionDenied has written its record for request r
Logged(r) == \E i \in DOMAIN log : log[i].req = r

\* alertSecurityTeam has been called for request r
Escalated(r) == EscalationsOf(r) # {}

\* request r has been answered 403
Answered403(r) == r \in DOMAIN reqs /\ reqs[r].response = {403}

\* C29: audit side effects happen only for denials, in a fixed order: a
\* request passed on with next() or answered 401 has no audit record and
\* no escalation; the audit record of a denial is written before its
\* escalation, an escalation is made only for an attempt that has its
\* record, and the 403 is sent after both.
C29_AuditOnlyForDenialsInOrder ==
    [][ \A r \in DOMAIN reqs' :
            /\ (reqs'[r].next \/ reqs'[r].response = {401})
               => ~Logged(r)' /\ ~Escalated(r)'
            /\ (Logged(r)' /\ ~Logged(r))
               => ~Escalated(r)' /\ reqs'[r].response = {} /\ reqs'[r].decision = {FALSE}
            /\ (Escalated(r)' /\ ~Escalated(r))
               => Logged(r) /\ reqs'[r].response = {}
            /\ (Answered403(r)' /\ ~Answered403(r))
               => /\ Logged(r)
                  /\ Escalated(r) <=> isSupiciousActivity(ContextOf(r))
                  /\ log' = log /\ alerts' = alerts ]_vars

\* a denied request on resource kind admin has its record, its escalation
\* and its 403, while another request has been passed on with neither
C29_Witness ==
    \E r1, r2 \in Done :
        /\ reqs[r1].response = {403} /\ Logged(r1) /\ Escalated(r1)
        /\ reqs[r2].next /\ ~Logged(r2) /\ ~Escalated(r2)

----------------------------------------------------------------------------
(* Properties of requirePermission when its collaborators fail, under      *)
(* SpecMiddlewareFaults                                                    *)

\* C16: a failure of the audit path does not change the outcome: when
\* logPermissionDenied, isSupiciousActivity or alertSecurityTeam throws, the
\* request still ends as the 403 denial and next() is not called; an
\* allowed request ends with next(), no response and nothing audited.
C16_AuditFailureKeepsTheDenial ==
    \A r \in DOMAIN reqs :
        /\ reqs[r].failed = "audit" => reqs[r].response = {403} /\ ~reqs[r].next
        /\ reqs[r].decision = {TRUE} =>
               /\ reqs[r].next /\ reqs[r].response = {}
               /\ \A i \in DOMAIN log : log[i].req # r

\* C20: metadata unavailable is a deny: when getResourceMetadata fails, the
\* request ends as the 403 denial and next() is not called.
C20_MetadataFailureIsADenial ==
    \A r \in DOMAIN reqs :
        reqs[r].failed = "metadata" => reqs[r].response = {403} /\ ~reqs[r].next

\* the number of outcomes request r has got: next() and the responses sent
Outcomes(r) == (IF reqs[r].next THEN 1 ELSE 0) + Cardinality(reqs[r].response)

----------------------------------------------------------------------------
(* Properties of requirePermission on conditional rules, under             *)
(* SpecMiddlewareScoped                                                    *)

\* every rule that can allow the request of c carries a condition
GuardedByCondition(c) ==
    \A i \in 1..Len(ApplicableRules(c)) :
        c.action \in ApplicableRules(c)[i].actions
        => ApplicableRules(c)[i].condition # "none"

\* C30: the metadata requirePermission hands to checkPermission is empty
\* for every resource kind other than building, and for building when the
\* request holds no resource id; a request with empty metadata that only
\* conditional rules can allow is passed on only for an identity with
\* universalAccess or with both wildcard tags, whatever its regions,
\* propertyTypes and assignedBuildings.
C30_EmptyMetadataBlocksConditionalRules ==
    \A r \in DOMAIN reqs :
        reqs[r].decision # {} =>
            /\ (reqs[r].resource # "building" \/ Falsy(reqs[r].resourceId))
               => reqs[r].metadata = {EmptyObject}
            /\ (/\ reqs[r].next
                /\ reqs[r].metadata = {EmptyObject}
                /\ GuardedByCondition(ContextOf(r)))
               => \/ ContextOf(r).user.universalAccess
                  \/ /\ "all_regions" \in ContextOf(r).user.regions
                     /\ "all_types" \in ContextOf(r).user.propertyTypes

\* a viewer of south_florida offices assigned building_123 has been refused
\* the suites of building_123
C30_Witness ==
    \E r \in Done :
        /\ reqs[r].resource = "suite" /\ reqs[r].resourceId = "building_123"
        /\ reqs[r].metadata = {EmptyObject}
        /\ reqs[r].response = {403} /\ ~reqs[r].next
        /\ ContextOf(r).user.role = "viewer"
        /\ ~ContextOf(r).user.universalAccess
        /\ "south_florida" \in ContextOf(r).user.regions
        /\ "office" \in ContextOf(r).user.propertyTypes
        /\ ContextOf(r).user.assignedBuildings = {"building_123"}

----------------------------------------------------------------------------
(* Properties of the cache in continued use, under SpecInUse *)

\* the keys of the requests of the identities
CacheKeys ==
    { getCacheKey([user |-> [id |-> id], resource |-> req.resource,
                   action |-> req.action, resourceId |-> req.resourceId]) :
        id \in UserIds, req \in CacheRequests }

\* the cache holds under key an entry older than TTL
HoldsExpired(key) ==
    /\ key \in DOMAIN cache
    /\ now - cache[key].timestamp > TTL

\* C21: the cache is bounded: every entry older than TTL is eventually
\* removed, also when its key is never read again and neither
\* invalidateUser nor clear is called.
C21_ExpiredEntriesEventuallyRemoved ==
    \A key \in CacheKeys : HoldsExpired(key) ~> ~HoldsExpired(key)

====
